---- MODULE Spec2Model ----
(***************************************************************************)
(* VCP scanner (meetaman/vcp): the retrying fetch of one symbol's bars,    *)
(* the rolling indicators, the four-criteria pattern check and the scan    *)
(* that gathers the fetches and scores them one symbol at a time.          *)
(*                                                                         *)
(* longer.py is the parameterised pipeline; vcp2.py is the same code with  *)
(* the parameters written out (guard len(df) < 50, tail(60)); vcp.py is    *)
(* the sequential variant with the same indicators and the same check.     *)
(* A configuration record carries the parameters, so that both the         *)
(* parameterised and the hard-coded pipelines are instances.               *)
(*                                                                         *)
(* Numbers.  pandas columns hold floats; a float is modelled as NaN, +inf  *)
(* or an exact rational num/den (den > 0).  The Volatility column holds a  *)
(* standard deviation: the model keeps its square (the sample variance),   *)
(* and compares the ratio of two volatilities with the square of the       *)
(* threshold, which is the same comparison for non-negative numbers.       *)
(* The mean of ten volume ratios is taken in fixed point (FixScale).       *)
(***************************************************************************)
EXTENDS Integers, Sequences, FiniteSets, TLC

VARIABLES
    cfg,              \* parameters of the run (scan_stocks' keyword arguments)
    symbols,          \* load_stock_list's result
    retries,          \* get_stock_data's retries
    delay,            \* get_stock_data's delay
    provider,         \* per position of the list: what stock.history returns when it returns
    task,             \* per position of the list: the get_stock_data coroutine
    order,            \* positions in the order their coroutines returned, while gather waits
    pc,               \* where scan_stocks (or the evaluator under test) stands
    stock_data,       \* asyncio.gather's result
    k,                \* position of the scoring loop in zip(symbols, stock_data)
    df,               \* the loop's df
    pattern_results,  \* the loop's pattern_results
    results,          \* scan_stocks' results list
    sink              \* the collections handed to DataFrame(...).to_csv, in order

vars == <<cfg, symbols, retries, delay, provider, task, order, pc, stock_data, k,
          df, pattern_results, results, sink>>

-----------------------------------------------------------------------------
\* Bounds of the model.

\* longest symbol list
MaxSymbols == 2
\* largest value of get_stock_data's retries argument that is tried
MaxRetries == 3

-----------------------------------------------------------------------------
\* Floats.

NaN == [kind |-> "nan", num |-> 0, den |-> 1]
Inf == [kind |-> "inf", num |-> 0, den |-> 1]
Num(n, d) == [kind |-> "num", num |-> n, den |-> d]

\* x < y on floats: false whenever an operand is NaN
Lt(x, y) ==
    IF x.kind = "nan" \/ y.kind = "nan" THEN FALSE
    ELSE IF x.kind = "inf" THEN FALSE
    ELSE IF y.kind = "inf" THEN TRUE
    ELSE x.num * y.den < y.num * x.den

Gt(x, y) == Lt(y, x)

\* x / y on non-negative floats: 0/0 is NaN, x/0 is +inf (numpy warns, never raises)
Div(x, y) ==
    IF x.kind = "nan" \/ y.kind = "nan" THEN NaN
    ELSE IF x.kind = "inf" THEN (IF y.kind = "inf" THEN NaN ELSE Inf)
    ELSE IF y.kind = "inf" THEN Num(0, 1)
    ELSE IF y.num = 0 THEN (IF x.num = 0 THEN NaN ELSE Inf)
    ELSE Num(x.num * y.den, x.den * y.num)

FixScale == 1000
Fix(x) == (x.num * FixScale) \div x.den

-----------------------------------------------------------------------------
\* Sequences and pandas' rolling windows.

RECURSIVE SumRange(_, _, _)
SumRange(s, lo, hi) == IF lo > hi THEN 0 ELSE s[hi] + SumRange(s, lo, hi - 1)

RECURSIVE SumSqRange(_, _, _)
SumSqRange(s, lo, hi) == IF lo > hi THEN 0 ELSE s[hi] * s[hi] + SumSqRange(s, lo, hi - 1)

RECURSIVE MinRange(_, _, _)
MinRange(s, lo, hi) ==
    IF lo = hi THEN s[hi]
    ELSE LET m == MinRange(s, lo, hi - 1) IN IF s[hi] < m THEN s[hi] ELSE m

\* Series.rolling(window=w).mean(): NaN until w values are there
RollingMean(s, w) ==
    [i \in 1..Len(s) |-> IF i < w THEN NaN ELSE Num(SumRange(s, i - w + 1, i), w)]

\* Series.rolling(window=w).std(), squared: the sample variance (ddof = 1)
RollingVar(s, w) ==
    [i \in 1..Len(s) |->
        IF i < w \/ w < 2 THEN NaN
        ELSE LET sm == SumRange(s, i - w + 1, i)
                 sq == SumSqRange(s, i - w + 1, i)
             IN Num(w * sq - sm * sm, w * (w - 1))]

\* Series.rolling(window=w).min()
RollingMin(s, w) ==
    [i \in 1..Len(s) |-> IF i < w THEN NaN ELSE Num(MinRange(s, i - w + 1, i), 1)]

\* Series.tail(n)
tail(s, n) ==
    IF n <= 0 THEN <<>>
    ELSE IF n >= Len(s) THEN s
    ELSE SubSeq(s, Len(s) - n + 1, Len(s))

\* Series.iloc[-j] is in range iff the series has at least j elements
InRange(s, j) == j >= 1 /\ j <= Len(s)
iloc(s, j) == s[Len(s) - j + 1]

\* Series.mean(): NaN entries are skipped; NaN when nothing is left
RECURSIVE FixSum(_, _)
FixSum(s, i) ==
    IF i = 0 THEN 0
    ELSE FixSum(s, i - 1) + (IF s[i].kind = "num" THEN Fix(s[i]) ELSE 0)

RECURSIVE CountNum(_, _)
CountNum(s, i) ==
    IF i = 0 THEN 0
    ELSE CountNum(s, i - 1) + (IF s[i].kind = "num" THEN 1 ELSE 0)

mean(s) ==
    LET c == CountNum(s, Len(s))
    IN IF c = 0 THEN NaN ELSE Num(FixSum(s, Len(s)), FixScale * c)

-----------------------------------------------------------------------------
\* The data frame.

None == [none |-> TRUE]
IndexError == [exception |-> "IndexError"]

Columns == {"index", "Close", "Low", "Volume"}

len(d) == Len(d.Close)
empty(d) == len(d) = 0

\* DataFrame.tail(n): every column cut alike
dftail(d, n) == [c \in DOMAIN d |-> tail(d[c], n)]

-----------------------------------------------------------------------------
\* calculate_vcp_metrics

volatility_window == 20
volume_window == 50

calculate_vcp_metrics(d, ma_window_short, ma_window_long) ==
    IF len(d) < ma_window_long THEN None
    ELSE LET Volume_MA == RollingMean(d.Volume, volume_window)
         IN [index        |-> d.index,
             Close        |-> d.Close,
             Low          |-> d.Low,
             Volume       |-> d.Volume,
             MA_20        |-> RollingMean(d.Close, ma_window_short),
             MA_50        |-> RollingMean(d.Close, ma_window_long),
             Volatility   |-> RollingVar(d.Close, volatility_window),
             Volume_MA    |-> Volume_MA,
             Volume_Ratio |-> [i \in 1..len(d) |-> Div(Num(d.Volume[i], 1), Volume_MA[i])]]

-----------------------------------------------------------------------------
\* check_vcp_pattern

\* one bar further back than iloc[-20]
PrevOffset_OneMore == 20 + 1
\* recent_df['Volatility'].iloc[-20], lows.iloc[-20]
PrevOffset == 20
\* one bar further back than iloc[-40]
PrevPrevOffset_OneMore == 40 + 1
\* lows.iloc[-40]
PrevPrevOffset == 40
\* recent_df['Low'].rolling(window=5)
LowsWindow == 5
\* recent_df['Volume_Ratio'].tail(10)
VolumeTail == 10

B(b) == IF b THEN 1 ELSE 0

pattern_score(criteria) ==
    B(criteria.price_above_mas) * 30
  + B(criteria.decreasing_volatility) * 25
  + B(criteria.higher_lows) * 25
  + B(criteria.volume_dry_up) * 20

\* "above 75" read strictly
vcp_found_Strict(score) == score > 75
vcp_found(score) == score >= 75

\* the criteria, in the order in which the dictionary lists them
CriteriaKeys == <<"price_above_mas", "decreasing_volatility", "higher_lows", "volume_dry_up">>

Title(key) ==
    CASE key = "price_above_mas"       -> "Price Above Mas"
      [] key = "decreasing_volatility" -> "Decreasing Volatility"
      [] key = "higher_lows"           -> "Higher Lows"
      [] key = "volume_dry_up"         -> "Volume Dry Up"

remarks(criteria) ==
    LET met == SelectSeq(CriteriaKeys, LAMBDA key : criteria[key])
    IN IF met = <<>> THEN <<"No triggers met">>
       ELSE [i \in 1..Len(met) |-> Title(met[i])]

\* a float threshold t, given as num/den, squared
Sq(t) == Num(t.num * t.num, t.den * t.den)

\* The statements of check_vcp_pattern in their order; an index out of range
\* ends the call with IndexError at the statement that reads it.
check_vcp_pattern(d, c) ==
    IF d = None \/ len(d) < c.min_len THEN [vcp_found |-> FALSE]
    ELSE
    LET recent_df == dftail(d, c.recent_days)
    IN
    IF ~InRange(recent_df.Close, 1) THEN IndexError
    ELSE
    LET last_price == Num(iloc(recent_df.Close, 1), 1)
        price_above_mas ==
            /\ Gt(last_price, iloc(recent_df.MA_20, 1))
            /\ Gt(last_price, iloc(recent_df.MA_50, 1))
    IN
    IF ~InRange(recent_df.Volatility, PrevOffset) THEN IndexError
    ELSE
    LET vol_change == Div(iloc(recent_df.Volatility, 1), iloc(recent_df.Volatility, PrevOffset))
        decreasing_volatility == Lt(vol_change, Sq(c.volatility_threshold))
        lows == RollingMin(recent_df.Low, LowsWindow)
    IN
    IF ~InRange(lows, PrevOffset) THEN IndexError
    ELSE
    LET first == Gt(iloc(lows, 1), iloc(lows, PrevOffset))
    IN
    \* "and" reads lows.iloc[-40] only when the first comparison is true
    IF first /\ ~InRange(lows, PrevPrevOffset) THEN IndexError
    ELSE
    LET higher_lows == first /\ Gt(iloc(lows, PrevOffset), iloc(lows, PrevPrevOffset))
        recent_volume_avg == mean(tail(recent_df.Volume_Ratio, VolumeTail))
        volume_dry_up == Lt(recent_volume_avg, c.volume_threshold)
        criteria == [price_above_mas       |-> price_above_mas,
                     decreasing_volatility |-> decreasing_volatility,
                     higher_lows           |-> higher_lows,
                     volume_dry_up         |-> volume_dry_up]
        score == pattern_score(criteria)
    IN [vcp_found          |-> vcp_found(score),
        pattern_score      |-> score,
        criteria_met       |-> criteria,
        last_price         |-> last_price,
        current_volatility |-> iloc(recent_df.Volatility, 1),
        volume_ratio       |-> recent_volume_avg,
        remarks            |-> remarks(criteria),
        trigger_date       |-> iloc(recent_df.index, 1)]

-----------------------------------------------------------------------------
\* Parameter settings.

Threshold(n, d) == [kind |-> "num", num |-> n, den |-> d]

\* longer.py with its defaults
DefaultCfg ==
    [recent_days |-> 60, min_len |-> 60, ma_window_short |-> 20, ma_window_long |-> 50,
     volatility_threshold |-> Threshold(4, 5), volume_threshold |-> Threshold(4, 5)]

\* vcp2.py and vcp.py: the parameters written out, the guard on 50 bars
HardCodedCfg == [DefaultCfg EXCEPT !.min_len = 50]

\* longer.py as its __main__ calls it
MainCfg ==
    [recent_days |-> 90, min_len |-> 90, ma_window_short |-> 30, ma_window_long |-> 60,
     volatility_threshold |-> Threshold(7, 10), volume_threshold |-> Threshold(7, 10)]

\* longer.py with another recent_days
RecentCfg(rd) == [DefaultCfg EXCEPT !.recent_days = rd, !.min_len = rd]

\* longer.py with shorter averages as well
ShortCfg(rd) == [RecentCfg(rd) EXCEPT !.ma_window_short = 10, !.ma_window_long = 20]

RecentDaysTried == {19, 20, 21, 39, 40, 41, 44}

EvalCfgs ==
    {DefaultCfg, HardCodedCfg, MainCfg}
        \cup {RecentCfg(rd) : rd \in RecentDaysTried}
        \cup {ShortCfg(rd) : rd \in {30, 40}}

-----------------------------------------------------------------------------
\* Bar series the provider may return.  A bar is addressed by e, its distance
\* from the last bar.  Closes swing around 10 with one amplitude in the last
\* twenty bars and another before; lows move in steps; volumes are level or
\* halve in the last ten bars.

Alt(e) == IF e % 2 = 0 THEN 1 ELSE -1

CloseKinds ==
    {"contract_above", "contract_below", "expand_above", "expand_below", "flat", "outlier"}

CloseAt(kind, e) ==
    CASE kind = "contract_above" ->
            IF e = 0 THEN 12 ELSE IF e < 20 THEN 10 + Alt(e) ELSE 10 + 3 * Alt(e)
      [] kind = "contract_below" ->
            IF e = 0 THEN 8 ELSE IF e < 20 THEN 10 + Alt(e) ELSE 10 + 3 * Alt(e)
      [] kind = "expand_above" ->
            IF e = 0 THEN 14 ELSE IF e < 20 THEN 10 + 3 * Alt(e) ELSE 10 + Alt(e)
      [] kind = "expand_below" ->
            IF e = 0 THEN 6 ELSE IF e < 20 THEN 10 + 3 * Alt(e) ELSE 10 + Alt(e)
      [] kind = "flat" -> 10
      [] kind = "outlier" ->
            IF e = 0 THEN 12 ELSE IF e = 39 THEN 2 ELSE 10 + Alt(e)

LowKinds == {"rising", "falling", "stalled", "dip"}

LowAt(kind, e) ==
    CASE kind = "rising"  -> IF e <= 10 THEN 5 ELSE IF e <= 30 THEN 3 ELSE 1
      [] kind = "falling" -> IF e <= 10 THEN 1 ELSE IF e <= 30 THEN 3 ELSE 5
      [] kind = "stalled" -> IF e <= 10 THEN 5 ELSE 3
      [] kind = "dip"     ->
            IF e = 24 THEN 0 ELSE IF e <= 10 THEN 5 ELSE IF e <= 30 THEN 3 ELSE 1

VolumeKinds == {"dry", "steady", "zero"}

VolumeAt(kind, e) ==
    CASE kind = "dry"    -> IF e < 10 THEN 5 ELSE 10
      [] kind = "steady" -> 10
      [] kind = "zero"   -> 0

MakeSeries(n, ck, lk, vk) ==
    [index  |-> [i \in 1..n |-> i],
     Close  |-> [i \in 1..n |-> CloseAt(ck, n - i)],
     Low    |-> [i \in 1..n |-> LowAt(lk, n - i)],
     Volume |-> [i \in 1..n |-> VolumeAt(vk, n - i)]]

EmptySeries == MakeSeries(0, "flat", "rising", "steady")

SeriesLengths == {40, 55, 60, 65, 90}

EvalSeries ==
    {MakeSeries(n, ck, lk, vk) :
        n \in SeriesLengths, ck \in CloseKinds, lk \in LowKinds, vk \in VolumeKinds}

-----------------------------------------------------------------------------
\* get_stock_data: one coroutine per position of the symbol list.  It runs
\* without interruption from one provider call to its return or to its
\* await asyncio.sleep(delay); other coroutines run only while it sleeps.

SymbolNames == <<"AAA", "BBB", "CCC", "DDD">>

\* the coroutine before its first statement
NewTask ==
    [pc      |-> "call",   \* call: about to call stock.history; sleep: in asyncio.sleep; done
     attempt |-> 0,        \* the for loop's attempt
     calls   |-> 0,        \* provider calls made
     failed  |-> 0,        \* provider calls that raised
     slept   |-> <<>>,     \* the arguments of the asyncio.sleep calls made
     result  |-> None]     \* the value returned

\* an empty frame handled like a failed attempt: sleep and try again
OnReturn_RetryEmpty(t, d) ==
    IF empty(d) /\ t.attempt < retries - 1
    THEN [t EXCEPT !.pc = "sleep", !.calls = @ + 1, !.slept = Append(@, delay)]
    ELSE [t EXCEPT !.pc = "done", !.calls = @ + 1,
                   !.result = IF empty(d) THEN None ELSE d]

\* stock.history returned d: an empty frame is "no data", anything else is the result
OnReturn(t, d) ==
    [t EXCEPT !.pc = "done", !.calls = @ + 1,
              !.result = IF empty(d) THEN None ELSE d]

\* the last attempt not told from the others: it sleeps too, and one more call follows
OnRaise_SleepAfterLast(t, n, dl) ==
    IF t.attempt < n
    THEN [t EXCEPT !.pc = "sleep", !.calls = @ + 1, !.failed = @ + 1,
                   !.slept = Append(@, dl)]
    ELSE [t EXCEPT !.pc = "done", !.calls = @ + 1, !.failed = @ + 1, !.result = None]

\* stock.history raised: sleep and go round the loop, or give up on the last attempt
OnRaise(t, n, dl) ==
    IF t.attempt < n - 1
    THEN [t EXCEPT !.pc = "sleep", !.calls = @ + 1, !.failed = @ + 1,
                   !.slept = Append(@, dl)]
    ELSE [t EXCEPT !.pc = "done", !.calls = @ + 1, !.failed = @ + 1, !.result = None]

\* asyncio.sleep is over: the next attempt
OnWake(t) == [t EXCEPT !.pc = "call", !.attempt = @ + 1]

Finish(i) == IF task'[i].pc = "done" THEN Append(order, i) ELSE order

FetchReturns(i) ==
    /\ pc = "gather"
    /\ task[i].pc = "call"
    /\ task' = [task EXCEPT ![i] = OnReturn(@, provider[i])]
    /\ order' = Finish(i)
    /\ UNCHANGED <<cfg, symbols, retries, delay, provider, pc, stock_data, k, df,
                   pattern_results, results, sink>>

FetchRaises(i) ==
    /\ pc = "gather"
    /\ task[i].pc = "call"
    /\ task' = [task EXCEPT ![i] = OnRaise(@, retries, delay)]
    /\ order' = Finish(i)
    /\ UNCHANGED <<cfg, symbols, retries, delay, provider, pc, stock_data, k, df,
                   pattern_results, results, sink>>

FetchWakes(i) ==
    /\ pc = "gather"
    /\ task[i].pc = "sleep"
    /\ task' = [task EXCEPT ![i] = OnWake(@)]
    /\ UNCHANGED <<cfg, symbols, retries, delay, provider, order, pc, stock_data, k, df,
                   pattern_results, results, sink>>

-----------------------------------------------------------------------------
\* One get_stock_data call on its own, for every retries and delay tried.

DelaysTried == {0, 1, 2}

FetchSeries ==
    {EmptySeries,
     MakeSeries(60, "contract_above", "rising", "dry"),
     MakeSeries(40, "flat", "falling", "steady")}

InitFetch ==
    /\ cfg = DefaultCfg
    /\ symbols = <<SymbolNames[1]>>
    /\ retries \in 1..MaxRetries
    /\ delay \in DelaysTried
    /\ provider \in {<<d>> : d \in FetchSeries}
    /\ task = <<NewTask>>
    /\ order = <<>>
    /\ pc = "gather"
    /\ stock_data = <<>>
    /\ k = 0
    /\ df = None
    /\ pattern_results = None
    /\ results = <<>>
    /\ sink = <<>>

NextFetch ==
    \/ \E i \in DOMAIN task : FetchReturns(i)
    \/ \E i \in DOMAIN task : FetchRaises(i)
    \/ \E i \in DOMAIN task : FetchWakes(i)

SpecFetch == InitFetch /\ [][NextFetch]_vars

-----------------------------------------------------------------------------
\* scan_stocks

\* get_stock_data's defaults, which scan_stocks never overrides
DefaultRetries == 3
DefaultDelay == 2

\* (vcp2.py's scan is DefaultCfg's on these series, none of which has 50 to 59 bars)
ScanCfgs == {DefaultCfg, RecentCfg(30)}

ScanSeries ==
    {EmptySeries,
     MakeSeries(60, "contract_above", "rising", "dry"),
     MakeSeries(60, "contract_above", "falling", "dry"),
     MakeSeries(60, "flat", "falling", "steady"),
     MakeSeries(40, "contract_above", "rising", "dry")}

SeqsOf(S, n) == [1..n -> S]

Init ==
    /\ cfg \in ScanCfgs
    /\ \E n \in 0..MaxSymbols :
          /\ symbols = SubSeq(SymbolNames, 1, n)
          /\ provider \in SeqsOf(ScanSeries, n)
    /\ retries = DefaultRetries
    /\ delay = DefaultDelay
    /\ task = <<>>
    /\ order = <<>>
    /\ pc = "load"
    /\ stock_data = <<>>
    /\ k = 0
    /\ df = None
    /\ pattern_results = None
    /\ results = <<>>
    /\ sink = <<>>

\* "if not symbols: return"
LoadNothing ==
    /\ pc = "load"
    /\ symbols = <<>>
    /\ pc' = "done"
    /\ UNCHANGED <<cfg, symbols, retries, delay, provider, task, order, stock_data, k, df,
                   pattern_results, results, sink>>

\* tasks = [get_stock_data(session, symbol, period=period) for symbol in symbols]
LoadSymbols ==
    /\ pc = "load"
    /\ symbols # <<>>
    /\ task' = [i \in 1..Len(symbols) |-> NewTask]
    /\ pc' = "gather"
    /\ UNCHANGED <<cfg, symbols, retries, delay, provider, order, stock_data, k, df,
                   pattern_results, results, sink>>

\* a wait that returns with the first coroutine that finishes
Joined_FirstCompleted == \E i \in DOMAIN task : task[i].pc = "done"

\* asyncio.gather resumes its caller once every awaitable has returned
Joined == \A i \in DOMAIN task : task[i].pc = "done"

\* results in the order of completion, as asyncio.as_completed yields them
Gathered_AsCompleted ==
    [j \in DOMAIN task |-> IF j <= Len(order) THEN task[order[j]].result ELSE None]

\* and hands back the results in the order of the awaitables
Gathered == [i \in DOMAIN task |-> task[i].result]

\* stock_data = await asyncio.gather(*tasks): the coroutines are finished and
\* nothing but the list of their results is left of them
Gather ==
    /\ pc = "gather"
    /\ Joined
    /\ stock_data' = Gathered
    /\ task' = <<>>
    /\ order' = <<>>
    /\ k' = 1
    /\ pc' = "loop"
    /\ UNCHANGED <<cfg, symbols, retries, delay, provider, df,
                   pattern_results, results, sink>>

\* the row appended for a symbol whose pattern was found (Scan_Date is the wall clock)
Row(symbol, r) ==
    [Symbol                |-> symbol,
     Pattern_Score         |-> r.pattern_score,
     Last_Price            |-> r.last_price,
     Volatility            |-> r.current_volatility,
     Volume_Ratio          |-> r.volume_ratio,
     Price_Above_MAs       |-> r.criteria_met.price_above_mas,
     Decreasing_Volatility |-> r.criteria_met.decreasing_volatility,
     Higher_Lows           |-> r.criteria_met.higher_lows,
     Volume_Dry_Up         |-> r.criteria_met.volume_dry_up,
     Remarks               |-> r.remarks,
     Trigger_Date          |-> r.trigger_date]

\* "if df is None: continue"
SkipSymbol ==
    /\ pc = "loop"
    /\ k <= Len(symbols)
    /\ stock_data[k] = None
    /\ df' = None
    /\ k' = k + 1
    /\ UNCHANGED <<cfg, symbols, retries, delay, provider, task, order, pc, stock_data,
                   pattern_results, results, sink>>

\* One pass of the loop body.  calculate_vcp_metrics adds its columns to the
\* frame it is given, which is the frame stock_data holds; an exception of
\* check_vcp_pattern leaves scan_stocks, for nothing catches it.
ScoreSymbol ==
    /\ pc = "loop"
    /\ k <= Len(symbols)
    /\ stock_data[k] # None
    /\ LET annotated == calculate_vcp_metrics(stock_data[k], cfg.ma_window_short,
                                               cfg.ma_window_long)
           r == check_vcp_pattern(annotated, cfg)
       IN /\ df' = annotated
          /\ stock_data' = IF annotated = None THEN stock_data
                           ELSE [stock_data EXCEPT ![k] = annotated]
          /\ pattern_results' = r
          /\ IF r = IndexError
             THEN /\ pc' = "raised"
                  /\ UNCHANGED <<k, results>>
             ELSE /\ pc' = pc
                  /\ k' = k + 1
                  /\ results' = IF r.vcp_found THEN Append(results, Row(symbols[k], r))
                                ELSE results
    /\ UNCHANGED <<cfg, symbols, retries, delay, provider, task, order, sink>>

\* "if results: pd.DataFrame(results).to_csv(output_file, index=False)"
Save ==
    /\ pc = "loop"
    /\ k > Len(symbols)
    /\ sink' = IF results # <<>> THEN Append(sink, results) ELSE sink
    /\ pc' = "done"
    /\ UNCHANGED <<cfg, symbols, retries, delay, provider, task, order, stock_data, k, df,
                   pattern_results, results>>

Next ==
    \/ LoadNothing
    \/ LoadSymbols
    \/ \E i \in DOMAIN task : FetchReturns(i)
    \/ \E i \in DOMAIN task : FetchRaises(i)
    \/ \E i \in DOMAIN task : FetchWakes(i)
    \/ Gather
    \/ SkipSymbol
    \/ ScoreSymbol
    \/ Save

Spec == Init /\ [][Next]_vars

-----------------------------------------------------------------------------
\* The indicator step followed by the pattern check, on one series, for every
\* series and parameter setting tried.  provider keeps the series as fetched.

InitEval ==
    /\ cfg \in EvalCfgs
    /\ df \in EvalSeries
    /\ provider = <<df>>
    /\ symbols = <<SymbolNames[1]>>
    /\ pattern_results = None
    /\ pc = "calculate"
    /\ retries = DefaultRetries
    /\ delay = DefaultDelay
    /\ task = <<>>
    /\ order = <<>>
    /\ stock_data = <<>>
    /\ k = 0
    /\ results = <<>>
    /\ sink = <<>>

EvalCalculate ==
    /\ pc = "calculate"
    /\ df' = calculate_vcp_metrics(df, cfg.ma_window_short, cfg.ma_window_long)
    /\ pc' = "check"
    /\ UNCHANGED <<cfg, symbols, retries, delay, provider, task, order, stock_data, k,
                   pattern_results, results, sink>>

EvalCheck ==
    /\ pc = "check"
    /\ pattern_results' = check_vcp_pattern(df, cfg)
    /\ pc' = IF pattern_results' = IndexError THEN "raised" ELSE "checked"
    /\ UNCHANGED <<cfg, symbols, retries, delay, provider, task, order, stock_data, k,
                   df, results, sink>>

NextEval == EvalCalculate \/ EvalCheck

SpecEval == InitEval /\ [][NextEval]_vars

-----------------------------------------------------------------------------
\* Claims about get_stock_data (SpecFetch).

\* C1: with retries >= 1, a fetch whose first k provider calls raise and whose
\* next call returns a non-empty series returns that series after exactly
\* k + 1 calls and k sleeps, k <= retries - 1; a fetch whose every call raises
\* returns absent after exactly retries calls and retries - 1 sleeps; no more
\* than retries calls are ever made and every sleep is of the same delay.
C1_RetryAccounting ==
    \A i \in DOMAIN task :
        LET t == task[i]
        IN /\ t.calls <= retries
           /\ \A j \in DOMAIN t.slept : t.slept[j] = delay
           /\ (t.pc = "done" /\ t.result # None) =>
                 /\ t.failed <= retries - 1
                 /\ t.calls = t.failed + 1
                 /\ Len(t.slept) = t.failed
                 /\ t.result = provider[i]
           /\ (t.pc = "done" /\ t.failed = t.calls) =>
                 /\ t.result = None
                 /\ t.calls = retries
                 /\ Len(t.slept) = retries - 1

\* the series is returned by the last of three attempts, after two sleeps
C1_Witness ==
    \E i \in DOMAIN task :
        /\ task[i].pc = "done"
        /\ task[i].result # None
        /\ task[i].failed = 2
        /\ retries = 3
        /\ delay > 0

\* C2: once the provider has returned an empty series, on the first attempt or
\* after attempts that raised, the fetch has returned absent with no further
\* provider call and no further sleep, whatever attempts remain.
C2_EmptyNotRetried ==
    \A i \in DOMAIN task :
        LET t == task[i]
        IN (empty(provider[i]) /\ t.calls > t.failed) =>
               /\ t.pc = "done"
               /\ t.result = None
               /\ t.calls = t.failed + 1
               /\ Len(t.slept) = t.failed

\* an empty series returned by the second of three attempts
C2_Witness ==
    \E i \in DOMAIN task :
        /\ empty(provider[i])
        /\ task[i].pc = "done"
        /\ task[i].failed = 1
        /\ task[i].calls = 2
        /\ retries = 3

-----------------------------------------------------------------------------
\* Claims about scan_stocks (Spec).

\* the verdict of position i scanned on its own series
VerdictAlone(i) ==
    check_vcp_pattern(
        calculate_vcp_metrics(provider[i], cfg.ma_window_short, cfg.ma_window_long), cfg)

\* the fetched columns of a frame
Fetched(d) == [c \in Columns |-> d[c]]

\* the rows of the positions 1..n that were not skipped, in the order of the list
RECURSIVE ExpectedRows(_)
ExpectedRows(n) ==
    IF n = 0 THEN <<>>
    ELSE LET v == VerdictAlone(n)
         IN IF stock_data[n] # None /\ v # IndexError /\ v.vcp_found
            THEN Append(ExpectedRows(n - 1), Row(symbols[n], v))
            ELSE ExpectedRows(n - 1)

\* C3: whatever the symbols, the provider's behaviour for each of them and the
\* parameter setting, the scan never ends with an exception, and the rows it
\* ends with are those of each symbol scanned alone.
C3_FailureIsolation ==
    /\ pc # "raised"
    /\ pc = "done" => results = ExpectedRows(Len(symbols))

\* C6: the sink is written at most once; once the scan has ended it has been
\* written iff some verdict had found = true, with exactly the rows of those
\* verdicts; an empty symbol list ends the scan with no fetch and no write.
C6_SinkDiscipline ==
    /\ Len(sink) <= 1
    /\ pc \in {"done", "raised"} =>
          /\ (sink # <<>>) <=> (results # <<>>)
          /\ sink # <<>> => sink[1] = results
    /\ symbols = <<>> => (sink = <<>> /\ task = <<>> /\ stock_data = <<>>)

\* C7: nothing of the scoring (the loop's position, df, pattern_results, the
\* rows) changes in a step taken while some fetch coroutine has not returned,
\* sleeping ones included, and the loop moves one symbol at a time.
C7_JoinBarrier ==
    [][ /\ (k' # k \/ df' # df \/ pattern_results' # pattern_results \/ results' # results)
            => \A i \in DOMAIN task : task[i].pc = "done"
        /\ k' # k => k' = k + 1 ]_vars

\* one coroutine has returned its series while another sleeps between attempts,
\* and the scan still waits
C7_Witness ==
    /\ pc = "gather"
    /\ k = 0
    /\ \E i, j \in DOMAIN task :
          /\ task[i].pc = "done"
          /\ task[i].result # None
          /\ task[j].pc = "sleep"

\* C10: in whatever order the coroutines return, each position of stock_data
\* is absent or the series of that position's own fetch, and the rows are
\* those of the positions scored so far, in the order of the symbol list.
C10_OwnSeriesInListOrder ==
    pc \in {"loop", "done", "raised"} /\ symbols # <<>> =>
        /\ Len(stock_data) = Len(symbols)
        /\ \A i \in 1..Len(symbols) :
              stock_data[i] # None => Fetched(stock_data[i]) = provider[i]
        /\ results = ExpectedRows(k - 1)

\* the second coroutine returned before the first, with another series, and
\* gather is about to hand both back
C10_Witness ==
    /\ pc = "gather"
    /\ Len(order) = 2
    /\ order[1] = 2
    /\ task[1].result # None
    /\ task[2].result # None
    /\ task[1].result # task[2].result

-----------------------------------------------------------------------------
\* Claims about calculate_vcp_metrics and check_vcp_pattern (SpecEval).

\* check_vcp_pattern went past its guard
Ran == pc \in {"checked", "raised"} /\ df # None /\ len(df) >= cfg.min_len

\* and returned a verdict with all its fields
Full == pc = "checked" /\ "pattern_score" \in DOMAIN pattern_results

\* the number of bars of the recent window
Window == IF len(provider[1]) < cfg.recent_days THEN len(provider[1]) ELSE cfg.recent_days

Max(a, b) == IF a > b THEN a ELSE b

C5_ShortCircuit ==
    (pc \in {"checked", "raised"}
        /\ len(provider[1]) < Max(cfg.ma_window_long, cfg.recent_days))
    => pattern_results = [vcp_found |-> FALSE]

\* the 5-bar minimum of low ending at bar j of the fetched series, taken inside
\* the recent window: absent when its five bars do not all lie in the window
Low5(j) ==
    LET low == provider[1].Low
        n == Len(low)
    IN IF j - 4 < n - Window + 1 THEN NaN
       ELSE Num(CHOOSE m \in {low[x] : x \in (j - 4)..j} :
                    \A x \in (j - 4)..j : m <= low[x], 1)

\* the sample variance of close over the 20 bars ending at bar j, times 20 * 19
Var20(j) ==
    LET close == provider[1].Close
    IN Num(20 * SumSqRange(close, j - 19, j) - SumRange(close, j - 19, j) * SumRange(close, j - 19, j),
           1)

\* volatility[last] / volatility[last - back] < volatilityThreshold
DecreasingVolatilityAt(back) ==
    LET n == len(provider[1])
    IN Lt(Div(Var20(n), Var20(n - back)), Sq(cfg.volatility_threshold))

\* low5min[last] > low5min[last - back1] > low5min[last - back2]
HigherLowsAt(back1, back2) ==
    LET n == len(provider[1])
    IN Gt(Low5(n), Low5(n - back1)) /\ Gt(Low5(n - back1), Low5(n - back2))

\* C8 as stated: check_vcp_pattern raises whenever it runs on a recent window
\* of fewer than 41 bars (fewer than 21 at decreasingVolatility, fewer than 41
\* at higherLows), and so returns no verdict computed from such a window.
C8_Original == (Ran /\ Window < 41) => pc = "raised"

\* C8 amended: on a recent window of fewer than 20 bars check_vcp_pattern raises
\* at decreasingVolatility; on one of 20 to 39 bars it raises at higherLows
\* exactly when low5min[last] > low5min[last - 19], the only case in which the
\* third sample is read; on one of 40 bars or more it does not raise.  So no
\* verdict comes from a window of fewer than 20 bars, and none with
\* higherLows = true from a window of fewer than 40.
C8_RaisesBelow20AndOnFirstComparison ==
    Ran =>
        /\ Window < 20 => pc = "raised"
        /\ (Window >= 20 /\ Window < 40) =>
              (pc = "raised" <=> Gt(Low5(len(provider[1])), Low5(len(provider[1]) - 19)))
        /\ Window >= 40 => pc = "checked"
        /\ (Full /\ pattern_results.criteria_met.higher_lows) => Window >= 40

\* a verdict computed from a recent window of exactly 20 bars
C8_Witness == Full /\ Window = 20

\* C9 as stated: on a recent window of at least 41 bars the two criteria are
\* those of the samples 20 and 40 bars before the last bar.
C9_Original ==
    (Full /\ Window >= 41) =>
        /\ pattern_results.criteria_met.decreasing_volatility = DecreasingVolatilityAt(20)
        /\ pattern_results.criteria_met.higher_lows = HigherLowsAt(20, 40)

\* C9 amended: on a recent window of at least 40 bars the two criteria are
\* those of the samples 19 and 39 bars before the last bar (iloc[-20] and
\* iloc[-40] count from the last bar as -1), the 5-bar minimum being taken
\* inside the recent window.
C9_SamplesAt19And39 ==
    (Full /\ Window >= 40) =>
        /\ pattern_results.criteria_met.decreasing_volatility = DecreasingVolatilityAt(19)
        /\ pattern_results.criteria_met.higher_lows = HigherLowsAt(19, 39)

\* a verdict on 60 bars whose two criteria are both true and both differ from
\* those of the samples 20 and 40 bars back
C9_Witness ==
    /\ Full
    /\ Window >= 41
    /\ pattern_results.criteria_met.higher_lows
    /\ ~HigherLowsAt(20, 40)
    /\ pattern_results.criteria_met.decreasing_volatility # DecreasingVolatilityAt(20)

====
